---- MODULE Spec2Model ----
(***************************************************************************)
(* Model of runtype (src/include/runtype.hpp): the insertion-order         *)
(* preserving map, the Basic tagged union, CompoundType schemas, the       *)
(* BasicResolver registry and CompoundInstance records.                    *)
(*                                                                         *)
(* A std::unordered_map is modelled as a function from keys to mapped      *)
(* values; an unordered_map iterator is modelled by the key of the node it *)
(* refers to (nodes are never erased one by one, and a rehash relinks the  *)
(* nodes without moving them).  A std::istream is a record holding the     *)
(* tokens not yet consumed and the fail bit.                               *)
(***************************************************************************)
EXTENDS Integers, Sequences, FiniteSets, TLC

VARIABLES
    maps,           \* the OrderPreservingMap objects under test, by id
    firstOrder,     \* history: per map, keys in order of first insertion since construction/clear
    mret,           \* what the last map operation was and what it returned
    seeding,        \* history: the name list basicTypes was made from
    basicTypes,     \* BasicResolver::basicTypes
    compoundTypes,  \* BasicResolver::compoundTypes
    firstReg,       \* history: per name, the Schema of the first registerCompoundType call
    forward,        \* history: the names first registered while a member type of theirs was unknown
    rec,            \* the CompoundInstance last constructed (or NoRecord)
    is,             \* the input stream after the last construction
    os,             \* the output stream after the last write
    input,          \* history: the tokens of the stream handed to the last construction
    ret,            \* what the last registry/record operation was and how it ended
    heap,           \* the objects owned through std::unique_ptr, by address
    recs            \* the CompoundInstance objects the caller holds, by id

mapVars == <<maps, firstOrder, mret>>
heapVars == <<heap, recs>>
regVars == <<seeding, basicTypes, compoundTypes, firstReg, forward, rec, is, os, input, ret, heap, recs>>
vars == <<maps, firstOrder, mret, seeding, basicTypes, compoundTypes, firstReg, forward, rec, is, os, input, ret,
          heap, recs>>

-----------------------------------------------------------------------------
(* Bounds *)

MaxVal == 1          \* mapped ints of the map under test range over 0..MaxVal
MaxStreamLen == 6    \* input streams hold at most this many tokens
MaxDepth == 4        \* nesting depth at which a construction is cut off as non-terminating
HeapSize == 10       \* addresses available to operator new

-----------------------------------------------------------------------------
(* detail::OrderPreservingMap *)

Keys == {"z", "a", "p"}
MapIds == {"A", "B"}
Vals == 0..MaxVal

EmptyMap == [k \in {} |-> 0]

\* A default-constructed OrderPreservingMap
OrderPreservingMap == [map_ |-> EmptyMap, vec_ |-> <<>>]

\* std::unordered_map::insert_or_assign: an existing node takes the new value
map_insert_assign(m, k, v) ==
    [map |-> (k :> v) @@ m, it |-> k, success |-> k \notin DOMAIN m]

\* std::unordered_map::insert / emplace / try_emplace: the node for k and
\* whether it was newly created
map_insert(m, k, v) ==
    IF k \in DOMAIN m
    THEN [map |-> m, it |-> k, success |-> FALSE]
    ELSE [map |-> m @@ (k :> v), it |-> k, success |-> TRUE]

track_insert_dup(vec, p) == Append(vec, p.it)

track_insert(vec, p) == IF p.success THEN Append(vec, p.it) ELSE vec

\* std::find over the order vector: the position of the node in the order
find(vec, it) ==
    IF \E i \in 1..Len(vec) : vec[i] = it
    THEN CHOOSE i \in 1..Len(vec) : vec[i] = it /\ \A j \in 1..(i - 1) : vec[j] # it
    ELSE Len(vec) + 1

order_iterator(vec, p) == [first |-> find(vec, p.it), second |-> p.success]

\* insert(const value_type&), insert(P&&), emplace(args...), try_emplace(k, args...)
\* all run the same three steps on the result of the underlying map operation
insert(o, k, v) ==
    LET p == map_insert(o.map_, k, v)
        vec == track_insert(o.vec_, p)
        r == order_iterator(vec, p)
    IN  [opm |-> [map_ |-> p.map, vec_ |-> vec], first |-> r.first, second |-> r.second]

emplace(o, k, v) == insert(o, k, v)

try_emplace(o, k, v) == insert(o, k, v)

\* a clear that empties the table and forgets the order vector
clear_table_only(o) == [map_ |-> EmptyMap, vec_ |-> o.vec_]

\* clear(): map_.clear(); vec_.clear()
clear(o) == [map_ |-> EmptyMap, vec_ |-> <<>>]

size(o) == Cardinality(DOMAIN o.map_)

empty(o) == DOMAIN o.map_ = {}

\* begin()..end(): the (key, value) pairs in the order of vec_
Items(o) == [i \in 1..Len(o.vec_) |-> <<o.vec_[i], o.map_[o.vec_[i]]>>]

KeysOf(o) == [i \in 1..Len(o.vec_) |-> o.vec_[i]]

RECURSIVE EmplaceAll(_, _)
EmplaceAll(o, l) ==
    IF l = <<>> THEN o
    ELSE EmplaceAll(emplace(o, l[1][1], l[1][2]).opm, Tail(l))

\* OrderPreservingMap(std::initializer_list<value_type>)
FromList(l) == EmplaceAll(OrderPreservingMap, l)

\* a copy that walks rhs.map_ itself: libstdc++ yields the newest node first
CopyMap_hash_order(rhs) ==
    EmplaceAll(OrderPreservingMap,
               [i \in 1..Len(rhs.vec_) |-> Items(rhs)[Len(rhs.vec_) + 1 - i]])

\* OrderPreservingMap(const OrderPreservingMap&)
CopyMap(rhs) == EmplaceAll(OrderPreservingMap, Items(rhs))

\* an operator[] that value-initialises the mapped value on every call
Index_reset(o, k, dflt) ==
    LET r == try_emplace(o, k, dflt) IN [r EXCEPT !.opm.map_[k] = dflt]

\* operator[]: try_emplace(key) with a value-initialised mapped value
Index(o, k, dflt) == try_emplace(o, k, dflt)

\* the loop of operator==: lhs_it->second is compared with itself
EqLoop(lhs, rhs) ==
    \A i \in 1..Len(lhs.vec_) :
        ~(lhs.vec_[i] # rhs.vec_[i] \/ lhs.map_[lhs.vec_[i]] # lhs.map_[lhs.vec_[i]])

\* operator==(const OrderPreservingMap&, const OrderPreservingMap&)
MapEq(lhs, rhs) ==
    IF size(lhs) # size(rhs) THEN FALSE ELSE EqLoop(lhs, rhs)

-----------------------------------------------------------------------------
(* Operations on the maps under test *)

Range(s) == {s[i] : i \in 1..Len(s)}

\* history of first insertions: k joins the end unless it was inserted before
Remember(h, k) == IF k \in Range(h) THEN h ELSE Append(h, k)

RECURSIVE RememberAll(_, _)
RememberAll(h, l) == IF l = <<>> THEN h ELSE RememberAll(Remember(h, l[1][1]), Tail(l))

\* the initializer lists the maps are constructed from
Pairs == Keys \X Vals
InitLists == {<<>>} \cup {<<p>> : p \in Pairs} \cup {<<p, q>> : p \in Pairs, q \in Pairs}
             \cup {<<<<"z", 1>>, <<"a", 0>>, <<"p", 1>>>>, <<<<"z", 1>>, <<"a", 0>>, <<"a", 1>>>>}

MapRet(op, k, v, r) ==
    [op |-> op, key |-> k, val |-> v, first |-> r.first, second |-> r.second]

NoRet == [first |-> 0, second |-> FALSE]

Inserted(id, r, k, rv) ==
    /\ maps' = [maps EXCEPT ![id] = r.opm]
    /\ firstOrder' = [firstOrder EXCEPT ![id] = Remember(@, k)]
    /\ mret' = rv
    /\ UNCHANGED regVars

\* OrderPreservingMap(std::initializer_list<value_type>)
MapConstruct(l) ==
    /\ maps' = [maps EXCEPT !["A"] = FromList(l)]
    /\ firstOrder' = [firstOrder EXCEPT !["A"] = RememberAll(<<>>, l)]
    /\ mret' = MapRet("construct", "", 0, NoRet)
    /\ UNCHANGED regVars

MapInsert(k, v) ==
    LET r == insert(maps["A"], k, v) IN Inserted("A", r, k, MapRet("insert", k, v, r))

MapInsertForward(k, v) ==
    LET r == insert(maps["A"], k, v) IN Inserted("A", r, k, MapRet("insert_forward", k, v, r))

MapEmplace(k, v) ==
    LET r == emplace(maps["A"], k, v) IN Inserted("A", r, k, MapRet("emplace", k, v, r))

MapTryEmplace(k, v) ==
    LET r == try_emplace(maps["A"], k, v) IN Inserted("A", r, k, MapRet("try_emplace", k, v, r))

\* x = opm[k]
MapIndexRead(k) ==
    LET r == Index(maps["A"], k, 0)
    IN  Inserted("A", r, k, MapRet("index", k, r.opm.map_[k], r))

\* opm[k] = v
IndexWrite(o, k, v) ==
    LET r == Index(o, k, 0) IN [r EXCEPT !.opm.map_[k] = v]

MapIndexWrite(k, v) ==
    LET w == IndexWrite(maps["A"], k, v)
    IN  Inserted("A", w, k, MapRet("index_write", k, v, w))

\* at(key): the mapped value, or std::out_of_range
MapAt(k) ==
    /\ mret' = IF k \in DOMAIN maps["A"].map_
               THEN MapRet("at", k, maps["A"].map_[k], [first |-> 0, second |-> TRUE])
               ELSE MapRet("at_out_of_range", k, 0, NoRet)
    /\ UNCHANGED <<maps, firstOrder>>
    /\ UNCHANGED regVars

MapClear ==
    /\ maps' = [maps EXCEPT !["A"] = clear(@)]
    /\ firstOrder' = [firstOrder EXCEPT !["A"] = <<>>]
    /\ mret' = MapRet("clear", "", size(maps["A"]), NoRet)
    /\ UNCHANGED regVars

MapNext ==
    \/ \E l \in InitLists : MapConstruct(l)
    \/ \E k \in Keys, v \in Vals : MapInsert(k, v)
    \/ \E k \in Keys, v \in Vals : MapInsertForward(k, v)
    \/ \E k \in Keys, v \in Vals : MapEmplace(k, v)
    \/ \E k \in Keys, v \in Vals : MapTryEmplace(k, v)
    \/ \E k \in Keys : MapIndexRead(k)
    \/ \E k \in Keys, v \in Vals : MapIndexWrite(k, v)
    \/ \E k \in Keys : MapAt(k)
    \/ MapClear

\* the addresses operator new hands out, and an address nothing lives at
Addr == 1..HeapSize
Free == [tag |-> "Free"]
RecIds == {"x", "y"}

\* nothing allocated, no CompoundInstance held
HeapIdle ==
    /\ heap = [a \in Addr |-> Free]
    /\ recs = [id \in RecIds |-> [tag |-> "None"]]

RegIdle ==
    /\ seeding = <<>>
    /\ basicTypes = EmptyMap
    /\ compoundTypes = EmptyMap
    /\ firstReg = EmptyMap
    /\ forward = {}
    /\ rec = [tag |-> "None"]
    /\ is = [buf |-> <<>>, fail |-> FALSE]
    /\ os = <<>>
    /\ input = <<>>
    /\ ret = [op |-> "idle"]
    /\ HeapIdle

MapInit ==
    /\ maps = [id \in MapIds |-> OrderPreservingMap]
    /\ firstOrder = [id \in MapIds |-> <<>>]
    /\ mret = MapRet("construct", "", 0, NoRet)
    /\ RegIdle

\* One OrderPreservingMap under every operation of its interface
SpecMap == MapInit /\ [][MapNext]_vars

-----------------------------------------------------------------------------
(* Two maps side by side: copies and comparisons *)

PairRet(op, b) == [op |-> op, second |-> b]

PairLists == {<<>>, <<<<"z", 1>>, <<"a", 0>>, <<"p", 1>>>>, <<<<"a", 0>>, <<"z", 1>>>>}

PairConstruct(id, l) ==
    /\ maps' = [maps EXCEPT ![id] = FromList(l)]
    /\ firstOrder' = [firstOrder EXCEPT ![id] = RememberAll(<<>>, l)]
    /\ mret' = PairRet("mutate", FALSE)
    /\ UNCHANGED regVars

\* OrderPreservingMap(const OrderPreservingMap&): dst becomes a copy of src
PairCopy(src, dst) ==
    /\ src # dst
    /\ maps' = [maps EXCEPT ![dst] = CopyMap(maps[src])]
    /\ firstOrder' = [firstOrder EXCEPT ![dst] = firstOrder[src]]
    /\ mret' = PairRet("copy", FALSE)
    /\ UNCHANGED regVars

PairInsert(id, k, v) ==
    LET r == insert(maps[id], k, v) IN Inserted(id, r, k, PairRet("mutate", FALSE))

PairIndexWrite(id, k, v) ==
    LET w == IndexWrite(maps[id], k, v) IN Inserted(id, w, k, PairRet("mutate", FALSE))

PairClear(id) ==
    /\ maps' = [maps EXCEPT ![id] = clear(@)]
    /\ firstOrder' = [firstOrder EXCEPT ![id] = <<>>]
    /\ mret' = PairRet("mutate", FALSE)
    /\ UNCHANGED regVars

\* A == B
PairCompare ==
    /\ mret' = PairRet("eq", MapEq(maps["A"], maps["B"]))
    /\ UNCHANGED <<maps, firstOrder>>
    /\ UNCHANGED regVars

PairNext ==
    \/ \E id \in MapIds, l \in PairLists : PairConstruct(id, l)
    \/ \E src \in MapIds, dst \in MapIds : PairCopy(src, dst)
    \/ \E id \in MapIds, k \in Keys, v \in Vals : PairInsert(id, k, v)
    \/ \E id \in MapIds, k \in Keys, v \in Vals : PairIndexWrite(id, k, v)
    \/ \E id \in MapIds : PairClear(id)
    \/ PairCompare

PairInit ==
    /\ maps = [id \in MapIds |-> OrderPreservingMap]
    /\ firstOrder = [id \in MapIds |-> <<>>]
    /\ mret = PairRet("mutate", FALSE)
    /\ RegIdle

SpecMapPair == PairInit /\ [][PairNext]_vars

-----------------------------------------------------------------------------
(* Basic, CompoundType and the BasicResolver registry *)

\* The parameter pack U... of the Basic under test, in declaration order
KindList == <<"Int", "Double", "String">>

\* detail::registerType: try_emplace of the constructor of kind T under name
registerType(typeMap, kind, name) ==
    IF name \in DOMAIN typeMap THEN typeMap ELSE typeMap @@ (name :> kind)

\* a makeTypeMapImpl that never pops the list: every kind is offered the first name
RECURSIVE makeTypeMapImpl_nopop(_, _, _)
makeTypeMapImpl_nopop(m, kinds, types) ==
    IF Len(kinds) = 1 THEN registerType(m, kinds[1], types[1])
    ELSE makeTypeMapImpl_nopop(registerType(m, kinds[1], types[1]), Tail(kinds), types)

\* detail::makeTypeMapImpl: register the first kind under the first name,
\* pop the name, go on with the remaining kinds
RECURSIVE makeTypeMapImpl(_, _, _)
makeTypeMapImpl(m, kinds, types) ==
    IF Len(kinds) = 1 THEN registerType(m, kinds[1], types[1])
    ELSE makeTypeMapImpl(registerType(m, kinds[1], types[1]), Tail(kinds), Tail(types))

makeTypeMap(types) == makeTypeMapImpl(EmptyMap, KindList, types)

\* the name lists the basic map is seeded from
Seedings == {<<"int", "double", "string">>, <<"int", "int", "string">>}

\* Basic(const T&): the variant holding a T
Basic(kind, v) == [tag |-> "Basic", kind |-> kind, v_ |-> v]

\* T(): every kind is value-initialised
DefaultValue == 0

\* a read that looks at the next token and leaves it in the stream
BasicRead_peek(b, s) ==
    IF s.fail \/ s.buf = <<>>
    THEN [value |-> b, is |-> [s EXCEPT !.fail = TRUE]]
    ELSE [value |-> [b EXCEPT !.v_ = Head(s.buf)], is |-> s]

\* Basic::read: operator>> of the active kind; a stream that has failed or is
\* at its end sets the fail bit and leaves the value as it was
BasicRead(b, s) ==
    IF s.fail \/ s.buf = <<>>
    THEN [value |-> b, is |-> [s EXCEPT !.fail = TRUE]]
    ELSE [value |-> [b EXCEPT !.v_ = Head(s.buf)], is |-> [s EXCEPT !.buf = Tail(s.buf)]]

\* Basic::write: operator<< of the active kind
BasicWrite(b, o) == Append(o, b.v_)

\* Basic::create<T>(is)
BasicCreate(kind, s) == BasicRead(Basic(kind, DefaultValue), s)

\* CompoundType(name, initializer_list)
CompoundType(name, l) == [name_ |-> name, members_ |-> FromList(l)]

Member(t) == [type |-> t]

\* operator==(const Member&, const Member&)
MemberEq(lhs, rhs) == lhs.type = rhs.type

\* operator==(const CompoundType&, const CompoundType&)
CompoundTypeEq(lhs, rhs) == lhs.name_ = rhs.name_ /\ MapEq(lhs.members_, rhs.members_)

\* an isBasicType that gives way to a compound type of the same name
isBasicType_unless_compound(s) ==
    (\E p \in DOMAIN basicTypes : p = s) /\ ~(\E p \in DOMAIN compoundTypes : p = s)

isBasicType(s) == \E p \in DOMAIN basicTypes : p = s

isCompoundType(s) == \E p \in DOMAIN compoundTypes : p = s

\* a lookup that hands out a value-initialised entry for a missing key, as operator[] does
at_default(m, s) == [outcome |-> "ok", value |-> IF s \in DOMAIN m THEN m[s] ELSE 0]

\* std::map::at
at(m, s) == IF s \in DOMAIN m THEN [outcome |-> "ok", value |-> m[s]]
            ELSE [outcome |-> "out_of_range", value |-> 0]

resolveBasic(s) == at(basicTypes, s)

resolveCompound(s) == at(compoundTypes, s)

\* a registerCompoundType that overwrites (compoundTypes[name] = type)
registerCompoundType_assign(type) ==
    [outcome |-> "ok",
     compoundTypes |-> (type.name_ :> type) @@ compoundTypes]

\* a registerCompoundType that turns down a type whose members it cannot resolve
registerCompoundType_checked(type) ==
    IF \A n \in DOMAIN type.members_.map_ :
           isBasicType(type.members_.map_[n].type) \/ isCompoundType(type.members_.map_[n].type)
    THEN [outcome |-> "ok", compoundTypes |-> compoundTypes @@ (type.name_ :> type)]
    ELSE [outcome |-> "runtime_error", compoundTypes |-> compoundTypes]

\* registerCompoundType: std::map::emplace keeps an entry that is already there
registerCompoundType(type) ==
    [outcome |-> "ok",
     compoundTypes |-> IF type.name_ \in DOMAIN compoundTypes THEN compoundTypes
                       ELSE compoundTypes @@ (type.name_ :> type)]

-----------------------------------------------------------------------------
(* CompoundInstance *)

Instance(type) == [tag |-> "Compound", type_ |-> type, members_ |-> OrderPreservingMap]

\* members_[name] = std::make_unique<...>(value)
StoreMember(inst, name, value) ==
    [inst EXCEPT !.members_ = IndexWrite(@, name, value).opm]

\* a copy constructor that leaves the members behind
CopyInstance_shallow(rhs) == [rhs EXCEPT !.members_ = OrderPreservingMap]

\* CompoundInstance(const CompoundInstance<R>&): every member is copied into a
\* new object, nested instances by this constructor again
RECURSIVE CopyFrom(_, _, _)
CopyFrom(inst, rhs, i) ==
    IF i > Len(rhs.members_.vec_) THEN inst
    ELSE LET name == rhs.members_.vec_[i]
             m == rhs.members_.map_[name]
             c == IF m.tag = "Basic" THEN m ELSE CopyFrom(Instance(m.type_), m, 1)
         IN  CopyFrom([inst EXCEPT !.members_ = emplace(@, name, c).opm], rhs, i + 1)

CopyInstance(rhs) == CopyFrom(Instance(rhs.type_), rhs, 1)

Thrown(what, s) == [outcome |-> what, value |-> [tag |-> "None"], is |-> s]

\* a read that skips a member whose type it cannot resolve
RECURSIVE ReadFrom(_, _, _, _, _)
NoSuchType_skip(inst, type, i, s, d) == ReadFrom(inst, type, i + 1, s, d)

\* throw std::runtime_error("No such type")
NoSuchType(inst, type, i, s, d) == Thrown("runtime_error", s)

\* CompoundInstance(const std::string& type, std::istream& is); d is the room
\* left on the call stack, in nested constructions
RECURSIVE Construct(_, _, _)

\* a create that reads the members of the CompoundType it is called on,
\* without asking the resolver for its name
create_direct(type, s, d) ==
    IF d = 0 THEN Thrown("stack_exhausted", s)
    ELSE ReadFrom(Instance(type.name_), type, 1, s, d)

\* a construction that gives up with an error where the nesting gets too deep
Construct_guarded(type, s, d) ==
    LET t == resolveCompound(type)
    IN  IF t.outcome # "ok" THEN Thrown("out_of_range", s)
        ELSE IF d = 0 THEN Thrown("runtime_error", s)
        ELSE ReadFrom(Instance(type), t.value, 1, s, d)

\* CompoundType::create<R>(is)
create(type, s, d) == Construct(type.name_, s, d)

\* CompoundInstance::read, from the i-th member of type_.members() on; type is
\* the CompoundType that type_ refers to
ReadFrom(inst, type, i, s, d) ==
    LET ms == type.members_
    IN  IF i > Len(ms.vec_) THEN [outcome |-> "ok", value |-> inst, is |-> s]
        ELSE LET name == ms.vec_[i]
                 member == ms.map_[name]
             IN  IF isBasicType(member.type)
                 THEN LET b == BasicCreate(resolveBasic(member.type).value, s)
                      IN  ReadFrom(StoreMember(inst, name, b.value), type, i + 1, b.is, d)
                 ELSE IF isCompoundType(member.type)
                 THEN LET c == create(resolveCompound(member.type).value, s, d - 1)
                      IN  IF c.outcome # "ok" THEN c
                          ELSE ReadFrom(StoreMember(inst, name, CopyInstance(c.value)),
                                        type, i + 1, c.is, d)
                 ELSE NoSuchType(inst, type, i, s, d)

Construct(type, s, d) ==
    LET t == resolveCompound(type)
    IN  IF t.outcome # "ok" THEN Thrown("out_of_range", s)
        ELSE IF d = 0 THEN Thrown("stack_exhausted", s)
        ELSE ReadFrom(Instance(type), t.value, 1, s, d)

\* the members as std::unordered_map itself would yield them: libstdc++ links
\* every new node in front of the older ones
MembersInHashOrder(inst) ==
    LET it == Items(inst.members_) IN [i \in 1..Len(it) |-> it[Len(it) + 1 - i]]

\* for (const auto& m : members_)
MembersInOrder(inst) == Items(inst.members_)

\* CompoundInstance::write, from the i-th entry of members_ on
RECURSIVE write(_, _)
RECURSIVE WriteFrom(_, _, _)
WriteFrom(ms, i, o) ==
    IF i > Len(ms) THEN o
    ELSE LET v == ms[i][2]
         IN  WriteFrom(ms, i + 1, IF v.tag = "Basic" THEN BasicWrite(v, o) ELSE write(v, o))

write(inst, o) == WriteFrom(MembersInOrder(inst), 1, o)

-----------------------------------------------------------------------------
(* The compound types and streams the registry and the records are driven with *)

emptyType == CompoundType("emptyType", <<>>)
otherEmptyType == CompoundType("emptyType", <<<<"i", Member("int")>>>>)
singleIntType == CompoundType("singleIntType", <<<<"i", Member("int")>>>>)
fakeBasicType == CompoundType("int", <<>>)
multiType ==
    CompoundType("multiType", <<<<"i", Member("int")>>, <<"d", Member("double")>>,
                                <<"s1", Member("string")>>, <<"s2", Member("string")>>>>)
nestedType == CompoundType("nestedType", <<<<"i", Member("int")>>, <<"m", Member("multiType")>>>>)
incompleteType == CompoundType("incompleteType", <<<<"m", Member("NOT_IMPLEMENTED")>>>>)
outerType == CompoundType("outerType", <<<<"n", Member("nestedType")>>, <<"s", Member("string")>>>>)
loopType == CompoundType("loopType", <<<<"i", Member("int")>>, <<"next", Member("loopType")>>>>)

Types == {emptyType, otherEmptyType, singleIntType, fakeBasicType, multiType, nestedType,
          incompleteType, outerType, loopType}

TypeNames == {t.name_ : t \in Types} \cup {"", "nonexistentType", "NOT_IMPLEMENTED", "double", "string"}

\* the streams handed to a construction: n distinct tokens
Streams == {[i \in 1..n |-> i] : n \in 0..MaxStreamLen}

Stream(tokens) == [buf |-> tokens, fail |-> FALSE]

NoRecord == [tag |-> "None"]

Ret(op, arg, outcome, value) == [op |-> op, arg |-> arg, outcome |-> outcome, value |-> value]

IdleRet == [op |-> "idle"]

Idle == ret.op = "idle"

-----------------------------------------------------------------------------
(* Operations on the registry and on records *)

\* a member of type names a type that is neither basic nor compound so far
RefersToUnknown(type) ==
    \E n \in DOMAIN type.members_.map_ :
        LET t == type.members_.map_[n].type
        IN  t \notin DOMAIN basicTypes /\ t \notin DOMAIN compoundTypes

RegisterCompoundType(type) ==
    /\ Idle
    /\ LET r == registerCompoundType(type)
       IN  /\ compoundTypes' = r.compoundTypes
           /\ ret' = Ret("registerCompoundType", type, r.outcome, 0)
    /\ firstReg' = IF type.name_ \in DOMAIN firstReg THEN firstReg
                   ELSE firstReg @@ (type.name_ :> type)
    /\ forward' = IF type.name_ \notin DOMAIN firstReg /\ RefersToUnknown(type)
                  THEN forward \cup {type.name_} ELSE forward
    /\ UNCHANGED <<seeding, basicTypes, rec, is, os, input>>
    /\ UNCHANGED mapVars
    /\ UNCHANGED heapVars

Query(op, s, r) ==
    /\ Idle
    /\ ret' = Ret(op, s, r.outcome, r.value)
    /\ UNCHANGED <<seeding, basicTypes, compoundTypes, firstReg, forward, rec, is, os, input>>
    /\ UNCHANGED mapVars
    /\ UNCHANGED heapVars

ResolveBasic(s) == Query("resolveBasic", s, resolveBasic(s))

ResolveCompound(s) == Query("resolveCompound", s, resolveCompound(s))

IsBasicType(s) == Query("isBasicType", s, [outcome |-> "ok", value |-> isBasicType(s)])

IsCompoundType(s) == Query("isCompoundType", s, [outcome |-> "ok", value |-> isCompoundType(s)])

Constructed(op, arg, tokens, r) ==
    /\ Idle
    /\ rec' = r.value
    /\ is' = r.is
    /\ input' = tokens
    /\ ret' = Ret(op, arg, r.outcome, 0)
    /\ UNCHANGED <<seeding, basicTypes, compoundTypes, firstReg, forward, os>>
    /\ UNCHANGED mapVars
    /\ UNCHANGED heapVars

\* CompoundInstance<R>(type, is)
ConstructByName(type, tokens) ==
    Constructed("CompoundInstance", type, tokens, Construct(type, Stream(tokens), MaxDepth))

\* type.create<R>(is)
ConstructFromType(type, tokens) ==
    Constructed("create", type, tokens, create(type, Stream(tokens), MaxDepth))

\* os << instance
Write ==
    /\ ret.op \in {"CompoundInstance", "create"}
    /\ rec.tag = "Compound"
    /\ os' = write(rec, <<>>)
    /\ ret' = Ret("write", ret.arg, "ok", 0)
    /\ UNCHANGED <<seeding, basicTypes, compoundTypes, firstReg, forward, rec, is, input>>
    /\ UNCHANGED mapVars
    /\ UNCHANGED heapVars

\* the caller drops the result of the last operation (and the record with it)
Discard ==
    /\ ~Idle
    /\ rec' = NoRecord
    /\ is' = Stream(<<>>)
    /\ os' = <<>>
    /\ input' = <<>>
    /\ ret' = IdleRet
    /\ UNCHANGED <<seeding, basicTypes, compoundTypes, firstReg, forward>>
    /\ UNCHANGED mapVars
    /\ UNCHANGED heapVars

Next ==
    \/ \E type \in Types : RegisterCompoundType(type)
    \/ \E s \in TypeNames : ResolveBasic(s)
    \/ \E s \in TypeNames : ResolveCompound(s)
    \/ \E s \in TypeNames : IsBasicType(s)
    \/ \E s \in TypeNames : IsCompoundType(s)
    \/ \E s \in TypeNames, tokens \in Streams : ConstructByName(s, tokens)
    \/ \E type \in Types, tokens \in Streams : ConstructFromType(type, tokens)
    \/ Write
    \/ Discard

MapIdle ==
    /\ maps = [id \in MapIds |-> OrderPreservingMap]
    /\ firstOrder = [id \in MapIds |-> <<>>]
    /\ mret = PairRet("mutate", FALSE)

Init ==
    /\ seeding \in Seedings
    /\ basicTypes = makeTypeMap(seeding)
    /\ compoundTypes = EmptyMap
    /\ firstReg = EmptyMap
    /\ forward = {}
    /\ rec = NoRecord
    /\ is = Stream(<<>>)
    /\ os = <<>>
    /\ input = <<>>
    /\ ret = IdleRet
    /\ MapIdle
    /\ HeapIdle

\* The registry and the records built from it
Spec == Init /\ [][Next]_vars

-----------------------------------------------------------------------------
(* Comparing compound types *)

retypedMultiType ==
    CompoundType("multiType", <<<<"i", Member("int")>>, <<"d", Member("string")>>,
                                <<"s1", Member("string")>>, <<"s2", Member("string")>>>>)
reorderedMultiType ==
    CompoundType("multiType", <<<<"d", Member("double")>>, <<"i", Member("int")>>,
                                <<"s1", Member("string")>>, <<"s2", Member("string")>>>>)
renamedMultiType ==
    CompoundType("multiType", <<<<"j", Member("int")>>, <<"d", Member("double")>>,
                                <<"s1", Member("string")>>, <<"s2", Member("string")>>>>)

ComparedTypes == Types \cup {retypedMultiType, reorderedMultiType, renamedMultiType}

MemberTypes == {"int", "double", "string", "multiType"}

\* lhs == rhs
CompareTypes(lhs, rhs) ==
    /\ ret' = [op |-> "eq", lhs |-> lhs, rhs |-> rhs, value |-> CompoundTypeEq(lhs, rhs)]
    /\ UNCHANGED <<seeding, basicTypes, compoundTypes, firstReg, forward, rec, is, os, input>>
    /\ UNCHANGED mapVars
    /\ UNCHANGED heapVars

CompareMembers(lhs, rhs) ==
    /\ ret' = [op |-> "member_eq", lhs |-> lhs, rhs |-> rhs, value |-> MemberEq(lhs, rhs)]
    /\ UNCHANGED <<seeding, basicTypes, compoundTypes, firstReg, forward, rec, is, os, input>>
    /\ UNCHANGED mapVars
    /\ UNCHANGED heapVars

TypeEqNext ==
    \/ \E lhs \in ComparedTypes, rhs \in ComparedTypes : CompareTypes(lhs, rhs)
    \/ \E lhs \in MemberTypes, rhs \in MemberTypes : CompareMembers(Member(lhs), Member(rhs))

\* Pairs of compound types under operator==
SpecTypeEq == Init /\ [][TypeEqNext]_vars

-----------------------------------------------------------------------------
(* Names: the registry under seedings and compound types that use the empty name *)

unnamedType == CompoundType("", <<<<"i", Member("int")>>>>)

NameSeedings ==
    Seedings \cup {<<"int", "", "string">>, <<"a", "a", "b">>, <<"a", "b", "a", "c">>,
                   <<"a", "a", "a">>}

NamedTypes == {unnamedType, emptyType, singleIntType, fakeBasicType}

QueriedNames == {"", "int", "string", "a", "b", "emptyType", "singleIntType", "nonexistentType"}

NamesInit ==
    /\ seeding \in NameSeedings
    /\ basicTypes = makeTypeMap(seeding)
    /\ compoundTypes = EmptyMap
    /\ firstReg = EmptyMap
    /\ forward = {}
    /\ rec = NoRecord
    /\ is = Stream(<<>>)
    /\ os = <<>>
    /\ input = <<>>
    /\ ret = IdleRet
    /\ MapIdle
    /\ HeapIdle

NamesNext ==
    \/ \E type \in NamedTypes : RegisterCompoundType(type)
    \/ \E s \in QueriedNames : IsBasicType(s)
    \/ \E s \in QueriedNames : IsCompoundType(s)
    \/ Discard

\* Membership queries against every seeding and registration order
SpecNames == NamesInit /\ [][NamesNext]_vars

-----------------------------------------------------------------------------
(* Access to a Basic and to the members of a CompoundInstance *)

\* a get that hands out the stored content whatever kind was asked for
get_convert(b, kind) == [outcome |-> "ok", value |-> b.v_]

\* Basic::get<T>: std::get<T>(v_)
get(b, kind) ==
    IF b.kind = kind THEN [outcome |-> "ok", value |-> b.v_]
    ELSE [outcome |-> "bad_variant_access", value |-> 0]

\* a conversion that takes any TypeInstance for a Basic, as a static_cast would
BasicFromInstance_static(x) ==
    [outcome |-> "ok", value |-> IF x.tag = "Basic" THEN x ELSE Basic("Int", DefaultValue)]

\* Basic(const detail::TypeInstance&): dynamic_cast<const Basic&>
BasicFromInstance(x) ==
    IF x.tag = "Basic" THEN [outcome |-> "ok", value |-> x]
    ELSE [outcome |-> "bad_cast", value |-> 0]

\* Basic::create(type, is): resolveBasic(type)(is)
BasicCreateByName(type, s) ==
    LET c == resolveBasic(type)
    IN  IF c.outcome # "ok" THEN Thrown("out_of_range", s)
        ELSE LET b == BasicCreate(c.value, s)
             IN  [outcome |-> "ok", value |-> b.value, is |-> b.is]

\* CompoundInstance::operator(): *members_.at(name)
member(inst, name) == at(inst.members_.map_, name)

\* the typed member access of the tests, instance.get<T>(name): the member is
\* looked up, taken for a Basic, and asked for its T
getAs(inst, kind, name) ==
    LET m == member(inst, name)
    IN  IF m.outcome # "ok" THEN m
        ELSE LET b == BasicFromInstance(m.value)
             IN  IF b.outcome # "ok" THEN b ELSE get(b.value, kind)

Kinds == {KindList[i] : i \in 1..Len(KindList)}

RecordTypes == {emptyType, singleIntType, multiType, nestedType}

RecordNames == {t.name_ : t \in RecordTypes} \cup {"nonexistentType"}

BasicNames == {"int", "double", "string", "foo"}

MemberNames == {"i", "d", "s1", "m", "f"}

Access(op, arg, r) ==
    /\ ret' = Ret(op, arg, r.outcome, r.value)
    /\ UNCHANGED <<seeding, basicTypes, compoundTypes, firstReg, forward, rec, is, os, input>>
    /\ UNCHANGED mapVars
    /\ UNCHANGED heapVars

\* B::create(type, is)
CreateBasic(type, tokens) ==
    Constructed("Basic::create", type, tokens, BasicCreateByName(type, Stream(tokens)))

\* b.get<T>()
BasicGet(kind) ==
    /\ rec.tag = "Basic"
    /\ Access("Basic::get", kind, get(rec, kind))

\* instance(name)
GetMember(name) ==
    /\ rec.tag = "Compound"
    /\ Access("get", [name |-> name, kind |-> ""], member(rec, name))

\* instance.get<T>(name)
GetMemberAs(kind, name) ==
    /\ rec.tag = "Compound"
    /\ Access("getAs", [name |-> name, kind |-> kind], getAs(rec, kind, name))

RecordNext ==
    \/ \E type \in RecordTypes : RegisterCompoundType(type)
    \/ \E s \in RecordNames, tokens \in Streams : ConstructByName(s, tokens)
    \/ \E s \in BasicNames, tokens \in Streams : CreateBasic(s, tokens)
    \/ \E kind \in Kinds : BasicGet(kind)
    \/ \E name \in MemberNames : GetMember(name)
    \/ \E kind \in Kinds, name \in MemberNames : GetMemberAs(kind, name)
    \/ Discard

\* Values and records under the accessors
SpecRecord == Init /\ [][RecordNext]_vars

-----------------------------------------------------------------------------
(* CompoundInstance objects with the storage of their members made explicit: *)
(* members_ maps a name to the address of the object the unique_ptr owns     *)

\* operator new: an address nothing lives at (the lowest one)
Alloc(h) == CHOOSE a \in Addr : h[a] = Free /\ \A b \in 1..(a - 1) : h[b] # Free

\* ~unique_ptr: the object at a is destroyed, and with it the members it owns
RECURSIVE Delete(_, _)
RECURSIVE FreeMembers(_, _, _)
FreeMembers(h, obj, i) ==
    IF i > Len(obj.members_.vec_) THEN h
    ELSE FreeMembers(Delete(h, obj.members_.map_[obj.members_.vec_[i]]), obj, i + 1)

Delete(h, a) ==
    LET m == h[a]
    IN  [(IF m.tag = "Compound" THEN FreeMembers(h, m, 1) ELSE h) EXCEPT ![a] = Free]

\* ~CompoundInstance
Destructor(h, obj) == FreeMembers(h, obj, 1)

\* a copy constructor that copies the member pointers, not the members
CopyObject_shallow(h, rhs) == [heap |-> h, obj |-> rhs]

\* CompoundInstance(const CompoundInstance<R>&): for every member of rhs a new
\* object is allocated and copy-constructed from it, nested instances by this
\* constructor again
RECURSIVE CopyObject(_, _)
RECURSIVE CopyMembers(_, _, _, _)
CopyMembers(h, obj, rhs, i) ==
    IF i > Len(rhs.members_.vec_) THEN [heap |-> h, obj |-> obj]
    ELSE LET name == rhs.members_.vec_[i]
             m == h[rhs.members_.map_[name]]
             c == IF m.tag = "Compound" THEN CopyObject(h, m) ELSE [heap |-> h, obj |-> m]
             a == Alloc(c.heap)
         IN  CopyMembers([c.heap EXCEPT ![a] = c.obj],
                         [obj EXCEPT !.members_ = emplace(@, name, a).opm], rhs, i + 1)

CopyObject(h, rhs) == CopyMembers(h, Instance(rhs.type_), rhs, 1)

\* std::make_unique<T>(v): a new object that holds v; the members of a
\* CompoundInstance are allocated in turn
RECURSIVE MakeUnique(_, _)
RECURSIVE PlaceMembers(_, _, _, _)
PlaceMembers(h, obj, v, i) ==
    IF i > Len(v.members_.vec_) THEN [heap |-> h, obj |-> obj]
    ELSE LET name == v.members_.vec_[i]
             p == MakeUnique(h, v.members_.map_[name])
         IN  PlaceMembers(p.heap, [obj EXCEPT !.members_ = emplace(@, name, p.addr).opm],
                          v, i + 1)

MakeUnique(h, v) ==
    LET p == IF v.tag = "Compound" THEN PlaceMembers(h, Instance(v.type_), v, 1)
             ELSE [heap |-> h, obj |-> v]
        a == Alloc(p.heap)
    IN  [heap |-> [p.heap EXCEPT ![a] = p.obj], addr |-> a]

\* members_[name] = std::make_unique<...>(value), for the members of v from the
\* i-th on: the new object is allocated, then the one owned before is destroyed
RECURSIVE AssignMembers(_, _, _, _)
AssignMembers(h, obj, v, i) ==
    IF i > Len(v.members_.vec_) THEN [heap |-> h, obj |-> obj]
    ELSE LET name == v.members_.vec_[i]
             p == MakeUnique(h, v.members_.map_[name])
             h1 == IF name \in DOMAIN obj.members_.map_
                   THEN Delete(p.heap, obj.members_.map_[name]) ELSE p.heap
         IN  AssignMembers(h1, [obj EXCEPT !.members_ = IndexWrite(@, name, p.addr).opm],
                           v, i + 1)

\* CompoundInstance::read on an object in storage
ReadObject(h, obj, s) ==
    LET r == ReadFrom(Instance(obj.type_), resolveCompound(obj.type_).value, 1, s, MaxDepth)
    IN  AssignMembers(h, obj, r.value, 1)

boxType ==
    CompoundType("boxType", <<<<"s", Member("string")>>, <<"b", Member("singleIntType")>>>>)

CopyTypes == {singleIntType, boxType}

CopyStreams == {[i \in 1..n |-> i + b] : n \in {1, MaxStreamLen}, b \in {0, 10}}

Stored(op, arg, r) ==
    /\ heap' = r.heap
    /\ ret' = Ret(op, arg, "ok", 0)
    /\ UNCHANGED <<seeding, basicTypes, compoundTypes, firstReg, forward, rec, is, os, input>>
    /\ UNCHANGED mapVars

\* CompoundInstance<R> x(type, is)
New(type, tokens) ==
    /\ recs["x"] = NoRecord
    /\ Construct(type, Stream(tokens), MaxDepth).outcome = "ok"
    /\ LET r == ReadObject(heap, Instance(type), Stream(tokens))
       IN  /\ recs' = [recs EXCEPT !["x"] = r.obj]
           /\ Stored("new", "x", r)

\* CompoundInstance<R> dst(src)
Copy(src, dst) ==
    /\ src # dst
    /\ recs[src] # NoRecord
    /\ recs[dst] = NoRecord
    /\ LET r == CopyObject(heap, recs[src])
       IN  /\ recs' = [recs EXCEPT ![dst] = r.obj]
           /\ Stored("copy", [src |-> src, dst |-> dst], r)

\* is >> recs[id], once after a construction or a copy
Reread(id, tokens) ==
    /\ ret.op \in {"new", "copy"}
    /\ recs[id] # NoRecord
    /\ LET r == ReadObject(heap, recs[id], Stream(tokens))
       IN  /\ recs' = [recs EXCEPT ![id] = r.obj]
           /\ Stored("read", id, r)

\* recs[id] goes out of scope
Destroy(id) ==
    /\ recs[id] # NoRecord
    /\ recs' = [recs EXCEPT ![id] = NoRecord]
    /\ Stored("destroy", id, [heap |-> Destructor(heap, recs[id])])

CopyNext ==
    \/ \E type \in CopyTypes : RegisterCompoundType(type)
    \/ \E type \in CopyTypes, tokens \in CopyStreams : New(type.name_, tokens)
    \/ \E src \in RecIds, dst \in RecIds : Copy(src, dst)
    \/ \E id \in RecIds, tokens \in CopyStreams : Reread(id, tokens)
    \/ \E id \in RecIds : Destroy(id)
    \/ Discard

\* Records that are copied, read again and destroyed
SpecCopy == Init /\ [][CopyNext]_vars

-----------------------------------------------------------------------------
(* Properties *)

ConstructOps == {"CompoundInstance", "create"}

\* the name a construction asks the resolver for
RequestedName == IF ret.op = "create" THEN ret.arg.name_ ELSE ret.arg

\* C1: registering a compound type whose name is a registered basic type name
\* fails with SchemaConflict, and the name does not become a compound type.
C1_BasicNameRejected ==
    (ret.op = "registerCompoundType" /\ ret.arg.name_ \in DOMAIN basicTypes)
        => (ret.outcome = "SchemaConflict" /\ ret.arg.name_ \notin DOMAIN compoundTypes)

\* C2: first registration wins for good: no step removes or replaces an entry of
\* the compound map; registering under a name already present succeeds and
\* changes nothing; resolveCompound and isCompoundType of a name registered
\* before answer with the Schema of its first registration.
C2_FirstRegistrationWins ==
    [][ /\ \A n \in DOMAIN compoundTypes :
              n \in DOMAIN compoundTypes' /\ compoundTypes'[n] = compoundTypes[n]
        /\ (ret'.op = "registerCompoundType" /\ ret'.arg.name_ \in DOMAIN compoundTypes)
              => (ret'.outcome = "ok" /\ compoundTypes' = compoundTypes)
        /\ (ret'.op = "resolveCompound" /\ ret'.arg \in DOMAIN firstReg)
              => (ret'.outcome = "ok" /\ ret'.value = firstReg[ret'.arg])
        /\ (ret'.op = "isCompoundType" /\ ret'.arg \in DOMAIN firstReg)
              => ret'.value = TRUE ]_vars

\* a structurally different Schema was offered under a taken name, and the first one is still there
C2_Witness ==
    /\ ret.op = "registerCompoundType"
    /\ ret.arg = otherEmptyType
    /\ ret.outcome = "ok"
    /\ compoundTypes["emptyType"] = emptyType
    /\ "nestedType" \in DOMAIN compoundTypes

RECURSIVE WellFormed(_)
WellFormed(r) ==
    LET S == compoundTypes[r.type_]
        declared == S.members_.vec_
    IN  /\ r.type_ \in DOMAIN compoundTypes
        /\ KeysOf(r.members_) = declared
        /\ DOMAIN r.members_.map_ = Range(declared)
        /\ \A i \in 1..Len(declared) :
              LET t == S.members_.map_[declared[i]].type
                  v == r.members_.map_[declared[i]]
              IN  \/ t \in DOMAIN basicTypes /\ v.tag = "Basic" /\ v.kind = basicTypes[t]
                  \/ t \in DOMAIN compoundTypes /\ v.tag = "Compound" /\ v.type_ = t
                     /\ WellFormed(v)

\* C3: a Record that was constructed holds exactly the member names of its
\* Schema, in declared order, each a basic Value of the declared kind or a
\* nested Record of the declared compound type that is well formed in turn.
C3_RecordMatchesSchema == rec.tag = "Compound" => WellFormed(rec)

C3_Witness ==
    /\ ret.op = "CompoundInstance"
    /\ ret.arg = "outerType"
    /\ rec.tag = "Compound"
    /\ rec.members_.map_["n"].members_.map_["m"].members_.vec_ = <<"i", "d", "s1", "s2">>

\* what a construction from type meets, its members taken in declared order
\* with d nested constructions still allowed: "unknown" for a member type that
\* is neither basic nor compound, "deep" when the nesting exceeds d, else "done"
RECURSIVE WalkFrom(_, _, _)
WalkFrom(type, i, d) ==
    LET ms == type.members_
    IN  IF i > Len(ms.vec_) THEN "done"
        ELSE LET t == ms.map_[ms.vec_[i]].type
             IN  IF t \in DOMAIN basicTypes THEN WalkFrom(type, i + 1, d)
                 ELSE IF t \in DOMAIN compoundTypes
                 THEN IF d = 1 THEN "deep"
                      ELSE LET w == WalkFrom(compoundTypes[t], 1, d - 1)
                           IN  IF w = "done" THEN WalkFrom(type, i + 1, d) ELSE w
                 ELSE "unknown"

\* C4 (as claimed): a construction whose Schema -- the one passed to
\* construct(schema, stream), the registered one for construct(typeName, stream)
\* -- reaches a member of unknown type fails with UnknownType and returns no Record.
C4_UnknownMemberOfPassedSchemaFails ==
    (/\ ret.op \in ConstructOps
     /\ \/ ret.op = "create" /\ WalkFrom(ret.arg, 1, MaxDepth) = "unknown"
        \/ /\ ret.op = "CompoundInstance"
           /\ ret.arg \in DOMAIN compoundTypes
           /\ WalkFrom(compoundTypes[ret.arg], 1, MaxDepth) = "unknown")
        => (ret.outcome = "runtime_error" /\ rec = NoRecord)

\* C4 (amended): a construction asks the resolver for the requested name
\* (typeName, or schema.name()); when the Schema registered under it reaches a
\* member of unknown type the construction fails with UnknownType, when the
\* name is not registered it fails with NotFound; either way no Record is returned.
C4_UnknownMemberOfRegisteredSchemaFails ==
    ret.op \in ConstructOps =>
        /\ (/\ RequestedName \in DOMAIN compoundTypes
            /\ WalkFrom(compoundTypes[RequestedName], 1, MaxDepth) = "unknown")
              => (ret.outcome = "runtime_error" /\ rec = NoRecord)
        /\ RequestedName \notin DOMAIN compoundTypes
              => (ret.outcome = "out_of_range" /\ rec = NoRecord)

\* the unknown member sits one level down and is met after a token was consumed
C4_Witness ==
    /\ ret.op = "create"
    /\ ret.arg = nestedType
    /\ "multiType" \notin DOMAIN compoundTypes
    /\ "multiType" \notin DOMAIN basicTypes
    /\ ret.outcome = "runtime_error"
    /\ rec = NoRecord
    /\ Len(is.buf) + 1 = Len(input)

\* the tokens the construction took from its stream
Consumed == SubSeq(input, 1, Len(input) - Len(is.buf))

\* C5: writing a Record that was constructed from a stream holding a token for
\* every member emits exactly the tokens the construction consumed, in order.
C5_WriteReproducesConsumedTokens ==
    (ret.op = "write" /\ ~is.fail) => os = Consumed

C5_Witness ==
    /\ ret.op = "write"
    /\ rec.type_ = "outerType"
    /\ ~is.fail
    /\ os = <<1, 2, 3, 4, 5, 6>>

\* C6 (as claimed): construct(schema, stream) does not depend on the registry:
\* it never fails for want of a registration, and the Record it builds has the
\* members of the Schema passed, in declared order.
C6_CreateReadsPassedSchema ==
    ret.op = "create" =>
        /\ ret.outcome # "out_of_range"
        /\ rec.tag = "Compound" => KeysOf(rec.members_) = KeysOf(ret.arg.members_)

\* C6 (amended): construct(schema, stream) resolves schema.name() in the
\* registry: it fails with NotFound when that name is not registered, and a
\* Record it builds is bound to the Schema registered under that name and has
\* that Schema's members in declared order.
C6_CreateReadsRegisteredSchema ==
    ret.op = "create" =>
        /\ ret.arg.name_ \notin DOMAIN compoundTypes
              => (ret.outcome = "out_of_range" /\ rec = NoRecord)
        /\ rec.tag = "Compound"
              => /\ rec.type_ = ret.arg.name_
                 /\ KeysOf(rec.members_) = KeysOf(compoundTypes[ret.arg.name_].members_)

\* the Schema passed differs from the one registered under its name
C6_Witness ==
    /\ ret.op = "create"
    /\ ret.arg = otherEmptyType
    /\ "emptyType" \in DOMAIN compoundTypes
    /\ compoundTypes["emptyType"] = emptyType
    /\ rec.tag = "Compound"
    /\ rec.members_.vec_ = <<>>
    /\ Len(input) > 0

\* C7: iterating a map yields each stored key exactly once, in the order of
\* first insertion since construction or the last clear.
C7_IterationInFirstInsertionOrder ==
    LET o == maps["A"]
    IN  /\ KeysOf(o) = firstOrder["A"]
        /\ \A i, j \in 1..Len(o.vec_) : o.vec_[i] = o.vec_[j] => i = j
        /\ Range(KeysOf(o)) = DOMAIN o.map_

\* "a" was inserted again after z, a, p
C7_Witness ==
    /\ mret.op \in {"insert", "insert_forward", "emplace", "try_emplace"}
    /\ mret.key = "a"
    /\ mret.second = FALSE
    /\ KeysOf(maps["A"]) = <<"z", "a", "p">>

\* C8: A == B exactly when the two maps iterate over the same (key, value)
\* pairs in the same order.
C8_EqualityIsStructural ==
    mret.op = "eq" => (mret.second <=> Items(maps["A"]) = Items(maps["B"]))

\* C9: two Schemas are equal exactly when their names are equal and their
\* member sequences agree in member name, declared type and order.
C9_TypeEqualityIsStructural ==
    ret.op = "eq" =>
        (ret.value <=> (/\ ret.lhs.name_ = ret.rhs.name_
                        /\ Items(ret.lhs.members_) = Items(ret.rhs.members_)))

\* C10: resolveBasic of a name that is no basic type and resolveCompound of a
\* name that is no compound type fail with NotFound and leave the registry as it was.
C10_UnknownLookupsFail ==
    [][ /\ (ret'.op = "resolveBasic" /\ ret'.arg \notin DOMAIN basicTypes)
              => (ret'.outcome = "out_of_range" /\ UNCHANGED <<basicTypes, compoundTypes>>)
        /\ (ret'.op = "resolveCompound" /\ ret'.arg \notin DOMAIN compoundTypes)
              => (ret'.outcome = "out_of_range" /\ UNCHANGED <<basicTypes, compoundTypes>>)
      ]_vars

\* "int" is registered as a basic type only, and is looked up as a compound
C10_Witness ==
    /\ ret.op = "resolveCompound"
    /\ ret.arg = "int"
    /\ "int" \in DOMAIN basicTypes
    /\ ret.outcome = "out_of_range"
    /\ DOMAIN compoundTypes # {}

\* C11: isBasicType and isCompoundType are pure membership checks that never
\* match the empty string: whatever the seeding and the registrations made so
\* far, both answer false for "", and neither changes the registry.
C11_EmptyNameNeverMatches ==
    [][ ret'.op \in {"isBasicType", "isCompoundType"} =>
            /\ UNCHANGED <<seeding, basicTypes, compoundTypes>>
            /\ ret'.arg = "" => ret'.value = FALSE ]_vars

\* the failures the spec calls TypeMismatch
TypeMismatch == {"bad_cast", "bad_variant_access"}

\* C12: for a Record built from Schema S, get(m) and getAs<Kind>(m) fail with
\* NotFound exactly when m is not a declared member of S; getAs<Kind>(m) on a
\* declared member fails with TypeMismatch when the member is a nested Record
\* or a basic Value of another kind, and otherwise returns the stored value.
C12_AccessErrorsByCause ==
    (ret.op \in {"get", "getAs"}) =>
        LET S == compoundTypes[rec.type_]
            declared == Range(KeysOf(S.members_))
            m == ret.arg.name
        IN  /\ ret.outcome = "out_of_range" <=> m \notin declared
            /\ (ret.op = "get" /\ m \in declared)
                  => (ret.outcome = "ok" /\ ret.value = rec.members_.map_[m])
            /\ (ret.op = "getAs" /\ m \in declared)
                  => LET v == rec.members_.map_[m]
                     IN  IF v.tag = "Basic" /\ v.kind = ret.arg.kind
                         THEN ret.outcome = "ok" /\ ret.value = v.v_
                         ELSE ret.outcome \in TypeMismatch

\* an Int was asked of the member of nestedType that is a nested record
C12_Witness ==
    /\ ret.op = "getAs"
    /\ ret.arg = [name |-> "m", kind |-> "Int"]
    /\ rec.tag = "Compound"
    /\ rec.type_ = "nestedType"
    /\ rec.members_.map_["m"].tag = "Compound"
    /\ ret.outcome = "bad_cast"

\* C13: getAs<K> on a Value returns the stored content when K is the active
\* kind and fails with TypeMismatch when it is not, without converting between
\* kinds; the Value is the same after the call, failed or not.
C13_GetChecksActiveKind ==
    [][ ret'.op = "Basic::get" =>
            /\ rec' = rec
            /\ IF ret'.arg = rec.kind
               THEN ret'.outcome = "ok" /\ ret'.value = rec.v_
               ELSE ret'.outcome = "bad_variant_access" ]_vars

\* an Int was asked of a Value holding a String that was read from the stream
C13_Witness ==
    /\ ret.op = "Basic::get"
    /\ ret.arg = "Int"
    /\ rec.tag = "Basic"
    /\ rec.kind = "String"
    /\ rec.v_ = 1
    /\ ret.outcome = "bad_variant_access"

InsertOps == {"insert", "insert_forward", "emplace", "try_emplace"}

\* C14: insert by const reference, insert by forwarding, emplace and
\* try_emplace of a key that is already present report inserted = false and
\* leave the map as it was: same size, same value under the key, same
\* iteration sequence.
C14_ReinsertionChangesNothing ==
    [][ (mret'.op \in InsertOps /\ mret'.key \in DOMAIN maps["A"].map_) =>
            /\ mret'.second = FALSE
            /\ size(maps'["A"]) = size(maps["A"])
            /\ maps'["A"].map_[mret'.key] = maps["A"].map_[mret'.key]
            /\ Items(maps'["A"]) = Items(maps["A"]) ]_vars

\* ("a", 1) was emplaced into a map that holds 0 under "a"
C14_Witness ==
    /\ mret.op = "emplace"
    /\ mret.key = "a"
    /\ mret.val = 1
    /\ mret.second = FALSE
    /\ Items(maps["A"]) = <<<<"z", 1>>, <<"a", 0>>>>

C17_IndexDefaultInsertsAndReturns ==
    [][ LET o == maps["A"]
            n == maps'["A"]
            k == mret'.key
        IN  /\ (mret'.op \in {"index", "index_write"} /\ k \in DOMAIN o.map_) =>
                  /\ size(n) = size(o)
                  /\ KeysOf(n) = KeysOf(o)
                  /\ mret'.op = "index" => (mret'.val = o.map_[k] /\ n = o)
            /\ (mret'.op \in {"index", "index_write"} /\ k \notin DOMAIN o.map_) =>
                  /\ size(n) = size(o) + 1
                  /\ KeysOf(n) = Append(KeysOf(o), k)
                  /\ mret'.op = "index" => (mret'.val = 0 /\ n.map_[k] = 0)
            /\ mret'.op = "index_write" =>
                  /\ n.map_[k] = mret'.val
                  /\ \A j \in DOMAIN o.map_ \ {k} : n.map_[j] = o.map_[j]
            /\ mret'.op = "at" => mret'.val = o.map_[k] ]_vars

\* opm["p"] was read on a map without "p": it is now the last key, holding 0
C17_Witness ==
    /\ mret.op = "index"
    /\ mret.key = "p"
    /\ mret.second = TRUE
    /\ Items(maps["A"]) = <<<<"z", 1>>, <<"a", 1>>, <<"p", 0>>>>

\* the record obj with every member address replaced by the object found there
RECURSIVE Deref(_, _)
Deref(h, obj) ==
    LET mm == obj.members_.map_
    IN  [obj EXCEPT !.members_.map_ =
            [n \in DOMAIN mm |-> IF h[mm[n]].tag = "Compound" THEN Deref(h, h[mm[n]])
                                 ELSE h[mm[n]]]]

\* the addresses obj owns, directly or through nested records
RECURSIVE Cells(_, _)
Cells(h, obj) ==
    LET mm == obj.members_.map_
    IN  UNION {{mm[n]} \cup (IF h[mm[n]].tag = "Compound" THEN Cells(h, h[mm[n]]) ELSE {})
               : n \in DOMAIN mm}

\* C16: a copy-constructed Record is bound to the Schema of its source, has the
\* same member names in the same order and equal member contents at every
\* depth, and shares no member storage with the source: reading one of the two
\* again, or destroying it, leaves every member value of the other as it was.
C16_CopyIsDeepAndIndependent ==
    [][ /\ ret'.op = "copy" =>
              LET src == ret'.arg.src
                  dst == ret'.arg.dst
              IN  /\ recs'[dst].type_ = recs[src].type_
                  /\ Deref(heap', recs'[dst]) = Deref(heap, recs[src])
                  /\ Deref(heap', recs'[src]) = Deref(heap, recs[src])
                  /\ Cells(heap', recs'[dst]) \cap Cells(heap', recs'[src]) = {}
        /\ ret'.op \in {"read", "destroy"} =>
              \A id \in RecIds \ {ret'.arg} :
                  recs[id] # NoRecord =>
                      /\ recs'[id] = recs[id]
                      /\ Deref(heap', recs'[id]) = Deref(heap, recs[id]) ]_vars

\* y is a copy of a boxType record x; x has been destroyed since, and y still
\* holds the two tokens x was read from, one of them in its nested record
C16_Witness ==
    /\ ret.op = "destroy"
    /\ ret.arg = "x"
    /\ recs["x"] = NoRecord
    /\ recs["y"] # NoRecord
    /\ recs["y"].type_ = "boxType"
    /\ write(Deref(heap, recs["y"]), <<>>) = <<11, 12>>

\* the contents of the basic leaves of record r, members taken in the order the
\* Schema of r declares them and nested records expanded in place
RECURSIVE LeavesOf(_)
RECURSIVE LeavesFrom(_, _, _)
LeavesFrom(r, declared, i) ==
    IF i > Len(declared) THEN <<>>
    ELSE LET v == r.members_.map_[declared[i]]
         IN  (IF v.tag = "Basic" THEN <<v.v_>> ELSE LeavesOf(v))
             \o LeavesFrom(r, declared, i + 1)

LeavesOf(r) == LeavesFrom(r, KeysOf(compoundTypes[r.type_].members_), 1)

\* the number of basic leaves of the Schema tree under type, nested at most d deep
RECURSIVE LeafCount(_, _, _)
LeafCount(type, i, d) ==
    LET ms == type.members_
    IN  IF i > Len(ms.vec_) \/ d = 0 THEN 0
        ELSE LET t == ms.map_[ms.vec_[i]].type
             IN  (IF t \in DOMAIN basicTypes THEN 1
                  ELSE IF t \in DOMAIN compoundTypes
                  THEN LeafCount(compoundTypes[t], 1, d - 1) ELSE 0)
                 + LeafCount(type, i + 1, d)

\* C18: a construction consumes tokens depth-first in declared order: the k-th
\* basic leaf of the Schema tree holds the k-th token consumed, so the tokens
\* of a nested member lie between those of its siblings, and when the stream
\* did not run out the number of tokens consumed is the number of basic leaves
\* (none for a Schema without members).
C18_TokensDepthFirstInDeclaredOrder ==
    (ret.op \in ConstructOps /\ rec.tag = "Compound") =>
        LET leaves == LeavesOf(rec)
        IN  /\ Len(Consumed) <= Len(leaves)
            /\ Len(leaves) = LeafCount(compoundTypes[rec.type_], 1, MaxDepth)
            /\ \A k \in 1..Len(Consumed) : leaves[k] = input[k]
            /\ ~is.fail => Len(Consumed) = Len(leaves)

\* outerType = {n: {i, m: {i, d, s1, s2}}, s} was read from six tokens: the
\* nested multiType holds tokens 2..5, the trailing string the sixth
C18_Witness ==
    /\ ret.op = "CompoundInstance"
    /\ rec.tag = "Compound"
    /\ rec.type_ = "outerType"
    /\ ~is.fail
    /\ LeavesOf(rec) = <<1, 2, 3, 4, 5, 6>>
    /\ LeavesOf(rec.members_.map_["n"].members_.map_["m"]) = <<2, 3, 4, 5>>
    /\ rec.members_.map_["s"].v_ = 6

\* C19: member type names are resolved when a Record is constructed, not when
\* the Schema is constructed or registered: a Schema naming an unknown type is
\* registered without error; a construction from it fails with UnknownType
\* while the type is unknown and succeeds once the type has been registered,
\* the referring Schema being registered only that once.
C19_MembersResolvedAtConstruction ==
    /\ ret.op = "registerCompoundType" =>
          (ret.outcome = "ok" /\ ret.arg.name_ \in DOMAIN compoundTypes)
    /\ forward \subseteq DOMAIN compoundTypes
    /\ (ret.op \in ConstructOps /\ RequestedName \in forward) =>
          LET w == WalkFrom(compoundTypes[RequestedName], 1, MaxDepth)
          IN  /\ compoundTypes[RequestedName] = firstReg[RequestedName]
              /\ w = "unknown" => (ret.outcome = "runtime_error" /\ rec = NoRecord)
              /\ w = "done" => (ret.outcome = "ok" /\ rec.tag = "Compound")

\* nestedType was registered before multiType was, and a record of it has now
\* been constructed with its nested multiType member
C19_Witness ==
    /\ ret.op = "CompoundInstance"
    /\ ret.arg = "nestedType"
    /\ "nestedType" \in forward
    /\ ret.outcome = "ok"
    /\ rec.tag = "Compound"
    /\ rec.members_.map_["m"].type_ = "multiType"

\* the registered compound types the members of n lead to: a member type that
\* is a basic type is read as one and leads nowhere
CompoundEdges(n) ==
    {t \in DOMAIN compoundTypes \ DOMAIN basicTypes :
        \E m \in DOMAIN compoundTypes[n].members_.map_ :
            compoundTypes[n].members_.map_[m].type = t}

\* the names reached from the names in S in one step or more, k rounds at most
RECURSIVE ReachFrom(_, _)
ReachFrom(S, k) ==
    LET next == UNION {CompoundEdges(n) : n \in S}
    IN  IF k = 0 THEN {} ELSE next \cup ReachFrom(next, k - 1)

Reach(n) == ReachFrom({n}, Cardinality(DOMAIN compoundTypes))

\* no Schema that can be reached from n refers back to itself
Acyclic(n) ==
    n \in DOMAIN compoundTypes => \A m \in {n} \cup Reach(n) : m \notin Reach(m)

\* what the members of type lead to when taken depth-first in declared order,
\* path being the names under construction: "cycle" when a name on the path
\* comes up again, "unknown" when an unknown member type comes first, else "done"
RECURSIVE CycleWalk(_, _, _)
CycleWalk(type, i, path) ==
    LET ms == type.members_
    IN  IF i > Len(ms.vec_) THEN "done"
        ELSE LET t == ms.map_[ms.vec_[i]].type
             IN  IF t \in DOMAIN basicTypes THEN CycleWalk(type, i + 1, path)
                 ELSE IF t \notin DOMAIN compoundTypes THEN "unknown"
                 ELSE IF t \in path THEN "cycle"
                 ELSE LET w == CycleWalk(compoundTypes[t], 1, path \cup {t})
                      IN  IF w = "done" THEN CycleWalk(type, i + 1, path) ELSE w

Terminated == {"ok", "out_of_range", "runtime_error"}

\* C20: a construction comes to an end (success, NotFound or UnknownType) when
\* the Schemas reachable from the requested name do not refer back to
\* themselves; nothing detects a cycle, so a construction that comes back to a
\* name under construction, all members before it resolving, never completes.
C20_TerminatesUnlessCyclic ==
    ret.op \in ConstructOps =>
        LET n == RequestedName
            w == IF n \in DOMAIN compoundTypes
                 THEN CycleWalk(compoundTypes[n], 1, {n}) ELSE "unregistered"
        IN  /\ Acyclic(n) => ret.outcome \in Terminated
            /\ w = "done" => ret.outcome = "ok"
            /\ w = "unknown" => ret.outcome = "runtime_error"
            /\ w = "unregistered" => ret.outcome = "out_of_range"
            /\ w = "cycle" => (~Acyclic(n) /\ ret.outcome = "stack_exhausted" /\ rec = NoRecord)

\* loopType = {i: int, next: loopType}: every level entered has read its int
C20_Witness ==
    /\ ret.op = "CompoundInstance"
    /\ ret.arg = "loopType"
    /\ ret.outcome = "stack_exhausted"
    /\ Len(input) = MaxStreamLen
    /\ Len(Consumed) = MaxDepth

\* the position of the first occurrence of types[i] among the names that are
\* paired with a kind
FirstOccurrence(types, i) ==
    CHOOSE j \in 1..i : types[j] = types[i] /\ \A h \in 1..(j - 1) : types[h] # types[i]

\* C21: seeding the basic map pairs the i-th name with the i-th kind of the
\* kind list; a name that occurs more than once keeps the kind of its first
\* occurrence, and every other name has the kind at its own position.
C21_SeedingPairsByPosition ==
    /\ DOMAIN basicTypes = {seeding[i] : i \in 1..Len(KindList)}
    /\ \A i \in 1..Len(KindList) :
          basicTypes[seeding[i]] = KindList[FirstOccurrence(seeding, i)]

\* names a, a, b over the kinds Int, Double, String: a is an Int, b a String,
\* and nothing is a Double
C21_Witness ==
    /\ seeding = <<"a", "a", "b">>
    /\ basicTypes = ("a" :> "Int" @@ "b" :> "String")
    /\ ret.op = "isBasicType"
    /\ ret.arg = "b"
    /\ ret.value = TRUE

\* C22: the order vector and the hash table of a map describe the same key
\* set: the vector has size() entries, each a distinct key stored in the
\* table, and every stored key is among them; after clear both are empty, and
\* a key inserted into the emptied map is the first of the new order.
C22_OrderAndTableAgree ==
    [][ LET o == maps["A"]
            n == maps'["A"]
        IN  /\ Len(n.vec_) = size(n)
            /\ \A i, j \in 1..Len(n.vec_) : n.vec_[i] = n.vec_[j] => i = j
            /\ {n.vec_[i] : i \in 1..Len(n.vec_)} = DOMAIN n.map_
            /\ mret'.op = "clear" => (n.vec_ = <<>> /\ empty(n))
            /\ (mret'.op \in InsertOps \cup {"index", "index_write"} /\ o.vec_ = <<>>)
                  => (n.vec_ = <<mret'.key>> /\ DOMAIN n.map_ = {mret'.key}) ]_vars

\* a map of three entries has just been cleared
C22_Witness ==
    /\ mret.op = "clear"
    /\ mret.val = 3
    /\ maps["A"].vec_ = <<>>
    /\ size(maps["A"]) = 0

\* every member of r, at every depth, whose declared type is a basic type name
\* is a Basic of the kind seeded under that name
RECURSIVE BasicFirst(_)
BasicFirst(r) ==
    LET S == compoundTypes[r.type_]
    IN  \A n \in DOMAIN S.members_.map_ :
            LET t == S.members_.map_[n].type
                v == r.members_.map_[n]
            IN  IF t \in DOMAIN basicTypes
                THEN v.tag = "Basic" /\ v.kind = basicTypes[t]
                ELSE v.tag = "Compound" /\ v.type_ = t /\ BasicFirst(v)

\* C23: during a construction a member's type name is taken for a basic type
\* first and for a compound type only if it is no basic type: a member whose
\* type name is in both maps is read as a basic Value, consuming one token, and
\* the Schema registered under that name is not used for it.
C23_BasicBeforeCompound ==
    (ret.op \in ConstructOps /\ rec.tag = "Compound") =>
        /\ BasicFirst(rec)
        /\ ~is.fail => Len(Consumed) = LeafCount(compoundTypes[rec.type_], 1, MaxDepth)

\* "int" is a basic type and a registered compound type without members; the
\* member i: int of singleIntType holds the one token that was read
C23_Witness ==
    /\ ret.op \in ConstructOps
    /\ rec.tag = "Compound"
    /\ rec.type_ = "singleIntType"
    /\ "int" \in DOMAIN basicTypes
    /\ "int" \in DOMAIN compoundTypes
    /\ rec.members_.map_["i"] = Basic("Int", 1)
    /\ Consumed = <<1>>

====
